---- MODULE Spec2Model ----
(***************************************************************************)
(* foundry_runtime::spsc_queue<T, capacity, padding, prefetch>              *)
(* (include/foundry_runtime/spsc_queue/spsc_queue.h) and the two threads    *)
(* of examples/spsc_queue/spsc_queue.test.cpp.                              *)
(*                                                                          *)
(* Every access to a variable that the other thread can see (the two        *)
(* atomic cursors and the slots) is a step of its own; the accesses to the  *)
(* thread-private cached cursors are steps of their own too, so that a call *)
(* is a fixed path of labelled steps.                                       *)
(*                                                                          *)
(* The cursors are stored with memory_order_release and loaded by the other *)
(* thread with memory_order_acquire: a store is not visible to the other    *)
(* thread at once.  Each cursor has the value its owner stored last and the *)
(* value the other thread's loads return, which follows the stores one by   *)
(* one, in their order, in steps of its own.  A thread that has loaded a    *)
(* cursor value finds in the slots what the owner wrote before storing it.  *)
(***************************************************************************)
EXTENDS Integers, Sequences, FiniteSets, TLC

\* ------------------------------------------------------------- bounds
\* Largest capacity instantiated (every power of two in 2..MaxCapacity).
MaxCapacity == 8
\* A free producer stops calling try_enqueue after capacity + MaxWrap successes.
MaxWrap == 2
\* The harness's `number` (5'000'000 in main) in the stress specification; the
\* producer lambda is followed while i <= MaxNumber.
MaxNumber == 4
\* The observer records at most this many calls of a run.
MaxRun == 4
\* The observer watches queues up to this capacity.
MaxWatchCapacity == 4
\* Largest capacity of the index specification (main instantiates 128).
MaxIndexCapacity == 128

\* ------------------------------------------------------------- state
VARIABLES
    capacity,           \* template parameter
    queue,              \* T queue[capacity]
    write_next,         \* write_next.r_w_index
    read_next,          \* read_next.r_w_index
    cached_read_loc,    \* producer-private snapshot of read_next
    cached_write_loc,   \* consumer-private snapshot of write_next
    read_seen,          \* the value of read_next that a load by the producer returns
    write_seen,         \* the value of write_next that a load by the consumer returns
    p_pc,               \* producer thread's position
    in_data,            \* try_enqueue's argument
    current_write_loc,  \* try_enqueue's local
    next_loc,           \* try_enqueue's local
    p_ret,              \* value returned by the producer's last call
    c_pc,               \* consumer thread's position
    current_read_loc,   \* try_dequeue's local
    out_data,           \* the caller's variable try_dequeue writes to
    c_ret,              \* value returned by the consumer's last call
    number,             \* the value passed to dispatchThreads as number
    returned,           \* dispatchThreads has returned: its parameter number is gone
    i,                  \* producer lambda's loop counter
    decrementor,        \* consumer lambda's counter
    script,             \* calls a scripted sequential client still has to make
    enqueued,           \* history: values of the successful try_enqueue calls
    dequeued,           \* history: values of the successful try_dequeue calls
    p_steps,            \* history: steps taken by the producer's current call
    c_steps,            \* history: steps taken by the consumer's current call
    p_call_full,        \* history: the queue was full when the producer's call began
    p_call_seen_full,   \* history: ... going by the read_next visible to the producer
    c_call_empty,       \* history: the queue was empty when the consumer's call began
    c_call_seen_empty,  \* history: ... going by the write_next visible to the consumer
    anchor,             \* observer: cursors and slots when it began to watch
    run,                \* observer: the calls completed one after the other since then
    budget,             \* observer: how many more calls it records (0: not watching)
    synced              \* observer: each call of the run began with the other side's stores visible

queue_vars == <<capacity, queue, write_next, read_next, cached_read_loc, cached_write_loc>>
mem_vars   == <<read_seen, write_seen>>
prod_vars  == <<p_pc, in_data, current_write_loc, next_loc, p_ret, p_steps,
                p_call_full, p_call_seen_full>>
cons_vars  == <<c_pc, current_read_loc, out_data, c_ret, c_steps,
                c_call_empty, c_call_seen_empty>>
test_vars  == <<number, returned, i, decrementor, script>>
hist_vars  == <<enqueued, dequeued>>
obs_vars   == <<anchor, run, budget, synced>>
vars == <<queue_vars, mem_vars, prod_vars, cons_vars, test_vars, hist_vars, obs_vars>>

\* ------------------------------------------------------------- helpers
\* Content of a slot, a local or an out-parameter that was never assigned.
Indeterminate == -1

\* Bitwise and of two naturals (size_t operands far below 2^64).
RECURSIVE BitAnd(_, _)
BitAnd(a, b) ==
    IF a = 0 \/ b = 0 THEN 0
    ELSE (IF a % 2 = 1 /\ b % 2 = 1 THEN 1 ELSE 0) + 2 * BitAnd(a \div 2, b \div 2)

\* static_assert(capacity >= 2); static_assert((capacity & (capacity - 1)) == 0)
CapacityAllowed(c) == c >= 2 /\ BitAnd(c, c - 1) = 0

Capacities == {c \in 0..MaxCapacity : CapacityAllowed(c)}

capacity_mask == capacity - 1

\* Mutant: the mask used as a modulus, so the last slot is never reached.
increment_modmask(k) == (k + 1) % capacity_mask

\* Mutant: the index is advanced without wrapping at the last slot.
increment_stuck(k) == IF k + 1 < capacity THEN k + 1 ELSE k

\* Mutant: the index is advanced without the mask.
increment_nowrap(k) == k + 1

\* Mutant: the capacity itself is used as the mask.
increment_capmask(k) == BitAnd(k + 1, capacity)

increment(k) == BitAnd(k + 1, capacity_mask)

\* Mutant: the producer trusts its snapshot and never takes the slow path.
EnqCacheMiss_never(next, cached) == FALSE

\* if (next_loc == cached_read_loc): the producer's snapshot leaves no room
EnqCacheMiss(next, cached) == next = cached

\* Mutant: the re-check after the acquire load is missing, the slot is written anyway.
EnqFull_never(next, loaded) == FALSE

\* if (next_loc == cached_read_loc) return false;  (after the acquire load)
EnqFull(next, loaded) == next = loaded

\* Mutant: the consumer trusts its snapshot and never takes the slow path.
DeqCacheMiss_never(cur, cached) == FALSE

\* if (current_read_loc == cached_write_loc): the consumer's snapshot shows no data
DeqCacheMiss(cur, cached) == cur = cached

\* Mutant: empty is concluded from the stale snapshot, the loaded value is ignored.
DeqEmpty_stale(cur, loaded) == TRUE

\* if (current_read_loc == cached_write_loc) return false;  (after the acquire load)
DeqEmpty(cur, loaded) == cur = loaded

\* What a copy of an unassigned T may yield: no value at all, or any value.
Garbage == {Indeterminate} \cup 0..(MaxCapacity + MaxWrap)

InEnqueue == {"e_load", "e_check", "e_acquire", "e_write", "e_store"}
InDequeue == {"d_load", "d_check", "d_acquire", "d_read", "d_store"}

\* The spec's vocabulary for the pair of cursors.
IsEmpty(w, r) == r = w
IsFull(w, r) == increment(w) = r

\* ------------------------------------------------------------- observer
\* The observer watches runs of calls that do not overlap.  It starts in a
\* state where no call is in progress, records each call as it returns (the
\* cursors, slots and snapshots it leaves), and gives up as soon as a call begins while
\* the other thread is inside one.  A finished run is kept until the next call.
Snapshot(w, r, q, cr, cw, out) ==
    [w |-> w, r |-> r, q |-> q, cr |-> cr, cw |-> cw, out |-> out]

NoSnapshot == [w |-> 0, r |-> 0, q |-> <<>>, cr |-> 0, cw |-> 0, out |-> Indeterminate]

Rec(op, arg, ret, out, w, r, q, cr, cw) ==
    [op |-> op, arg |-> arg, ret |-> ret, out |-> out, w |-> w, r |-> r, q |-> q,
     cr |-> cr, cw |-> cw]

ObserveReturn(rec) ==
    /\ run' = IF budget > 0 THEN Append(run, rec) ELSE run
    /\ budget' = IF budget > 0 THEN budget - 1 ELSE budget
    /\ anchor' = anchor
    /\ synced' = synced

\* stale: a store of the other side is not yet visible to the caller.
ObserveCall(overlaps, stale) ==
    /\ run' = IF budget = 0 \/ overlaps THEN <<>> ELSE run
    /\ budget' = IF overlaps THEN 0 ELSE budget
    /\ anchor' = IF budget = 0 \/ overlaps THEN NoSnapshot ELSE anchor
    /\ synced' = IF budget = 0 \/ overlaps THEN TRUE ELSE synced /\ ~ stale

\* ------------------------------------------------------------- construction
\* spsc_queue() = default: both cursors and both snapshots 0, slots unassigned.
Construct ==
    /\ capacity \in Capacities
    /\ queue = [k \in 0..(capacity - 1) |-> Indeterminate]
    /\ write_next = 0
    /\ read_next = 0
    /\ cached_read_loc = 0
    /\ cached_write_loc = 0
    /\ read_seen = 0
    /\ write_seen = 0

\* Two threads that have not called anything yet; with watch > 0 the observer
\* watches from the fresh queue on.
Threads(n, calls, watch) ==
    /\ p_pc = "idle"
    /\ in_data = Indeterminate
    /\ current_write_loc = 0
    /\ next_loc = 0
    /\ p_ret = "none"
    /\ p_steps = 0
    /\ p_call_full = FALSE
    /\ p_call_seen_full = FALSE
    /\ c_pc = "idle"
    /\ current_read_loc = 0
    /\ out_data = Indeterminate
    /\ c_ret = "none"
    /\ c_steps = 0
    /\ c_call_empty = FALSE
    /\ c_call_seen_empty = FALSE
    /\ number = n
    /\ returned = FALSE
    /\ i = 0
    /\ decrementor = Indeterminate
    /\ script = calls
    /\ enqueued = <<>>
    /\ dequeued = <<>>
    /\ anchor = IF watch > 0
                   THEN Snapshot(write_next, read_next, queue,
                                 cached_read_loc, cached_write_loc, out_data)
                   ELSE NoSnapshot
    /\ run = <<>>
    /\ budget = watch
    /\ synced = TRUE

\* ------------------------------------------------------------- try_enqueue
\* The call: the argument is bound, nothing else happens yet.
EnqEnter(v) ==
    /\ p_pc' = "e_load"
    /\ in_data' = v
    /\ p_ret' = "none"
    /\ p_steps' = 0
    /\ p_call_full' = IsFull(write_next, read_next)
    /\ p_call_seen_full' = IsFull(write_next, read_seen)
    /\ ObserveCall(c_pc \in InDequeue, read_seen # read_next)
    /\ UNCHANGED <<current_write_loc, next_loc>>

\* auto current_write_loc = write_next.r_w_index.load(relaxed);
\* auto next_loc = increment(current_write_loc);
EnqLoadWrite ==
    /\ p_pc = "e_load"
    /\ current_write_loc' = write_next
    /\ next_loc' = increment(write_next)
    /\ p_pc' = "e_check"
    /\ p_steps' = p_steps + 1
    /\ UNCHANGED <<queue_vars, in_data, p_ret, p_call_full, p_call_seen_full,
                   cons_vars, mem_vars, test_vars, hist_vars, obs_vars>>

\* Mutant: the slot is written before the room check instead of after it.
EnqCheckCache_writes_first ==
    /\ p_pc = "e_check"
    /\ p_pc' = IF EnqCacheMiss(next_loc, cached_read_loc) THEN "e_acquire" ELSE "e_write"
    /\ p_steps' = p_steps + 1
    /\ queue' = [queue EXCEPT ![current_write_loc] = in_data]
    /\ UNCHANGED <<capacity, write_next, read_next, cached_read_loc, cached_write_loc,
                   in_data, current_write_loc, next_loc, p_ret, p_call_full, p_call_seen_full,
                   cons_vars, mem_vars, test_vars, hist_vars, obs_vars>>

\* Mutant: full is concluded from the snapshot alone, without the acquire load.
EnqCheckCache_trusts ==
    /\ p_pc = "e_check"
    /\ p_steps' = p_steps + 1
    /\ IF EnqCacheMiss(next_loc, cached_read_loc)
          THEN /\ p_pc' = "ret"
               /\ p_ret' = "false"
               /\ ObserveReturn(Rec("enq", in_data, "false", out_data,
                                    write_next, read_next, queue,
                                    cached_read_loc, cached_write_loc))
          ELSE /\ p_pc' = "e_write"
               /\ p_ret' = p_ret
               /\ UNCHANGED obs_vars
    /\ UNCHANGED <<queue_vars, in_data, current_write_loc, next_loc, p_call_full, p_call_seen_full,
                   cons_vars, mem_vars, test_vars, hist_vars>>

\* if (next_loc == cached_read_loc) { ... }
EnqCheckCache ==
    /\ p_pc = "e_check"
    /\ p_pc' = IF EnqCacheMiss(next_loc, cached_read_loc) THEN "e_acquire" ELSE "e_write"
    /\ p_steps' = p_steps + 1
    /\ UNCHANGED <<queue_vars, in_data, current_write_loc, next_loc, p_ret, p_call_full, p_call_seen_full,
                   cons_vars, mem_vars, test_vars, hist_vars, obs_vars>>

\* Mutant: a blocking enqueue, which spins on the acquire load until there is room.
EnqAcquireRead_spins ==
    /\ p_pc = "e_acquire"
    /\ cached_read_loc' = read_seen
    /\ p_steps' = p_steps + 1
    /\ p_pc' = IF EnqFull(next_loc, read_seen) THEN "e_acquire" ELSE "e_write"
    /\ UNCHANGED <<capacity, queue, write_next, read_next, cached_write_loc,
                   in_data, current_write_loc, next_loc, p_ret, p_call_full, p_call_seen_full,
                   cons_vars, mem_vars, test_vars, hist_vars, obs_vars>>

\* Mutant: the loaded cursor is compared but not kept, the snapshot stays as it was.
EnqAcquireRead_nocache ==
    /\ p_pc = "e_acquire"
    /\ p_steps' = p_steps + 1
    /\ IF EnqFull(next_loc, read_seen)
          THEN /\ p_pc' = "ret"
               /\ p_ret' = "false"
               /\ ObserveReturn(Rec("enq", in_data, "false", out_data,
                                    write_next, read_next, queue,
                                    cached_read_loc, cached_write_loc))
          ELSE /\ p_pc' = "e_write"
               /\ p_ret' = p_ret
               /\ UNCHANGED obs_vars
    /\ UNCHANGED <<queue_vars, in_data, current_write_loc, next_loc, p_call_full, p_call_seen_full,
                   cons_vars, mem_vars, test_vars, hist_vars>>

\* Mutant: a refused call resets the producer's snapshot.
EnqAcquireRead_resets ==
    /\ p_pc = "e_acquire"
    /\ p_steps' = p_steps + 1
    /\ IF EnqFull(next_loc, read_seen)
          THEN /\ cached_read_loc' = 0
               /\ p_pc' = "ret"
               /\ p_ret' = "false"
               /\ ObserveReturn(Rec("enq", in_data, "false", out_data,
                                    write_next, read_next, queue,
                                    0, cached_write_loc))
          ELSE /\ cached_read_loc' = read_seen
               /\ p_pc' = "e_write"
               /\ p_ret' = p_ret
               /\ UNCHANGED obs_vars
    /\ UNCHANGED <<capacity, queue, write_next, read_next, cached_write_loc,
                   in_data, current_write_loc, next_loc, p_call_full, p_call_seen_full,
                   cons_vars, mem_vars, test_vars, hist_vars>>

\* cached_read_loc = read_next.r_w_index.load(acquire);
\* if (next_loc == cached_read_loc) return false;
\* The load returns the newest store of the consumer that is visible to the producer.
EnqAcquireRead ==
    /\ p_pc = "e_acquire"
    /\ cached_read_loc' = read_seen
    /\ p_steps' = p_steps + 1
    /\ IF EnqFull(next_loc, read_seen)
          THEN /\ p_pc' = "ret"
               /\ p_ret' = "false"
               /\ ObserveReturn(Rec("enq", in_data, "false", out_data,
                                    write_next, read_next, queue,
                                    read_seen, cached_write_loc))
          ELSE /\ p_pc' = "e_write"
               /\ p_ret' = p_ret
               /\ UNCHANGED obs_vars
    /\ UNCHANGED <<capacity, queue, write_next, read_next, cached_write_loc,
                   in_data, current_write_loc, next_loc, p_call_full, p_call_seen_full,
                   cons_vars, mem_vars, test_vars, hist_vars>>

\* Mutant: the cursor is published where the slot should be written, so the
\* consumer can see the new cursor while the slot still holds what it held.
EnqWriteSlot_publishes_first ==
    /\ p_pc = "e_write"
    /\ write_next' = next_loc
    /\ p_pc' = "e_store"
    /\ p_steps' = p_steps + 1
    /\ UNCHANGED <<capacity, queue, read_next, cached_read_loc, cached_write_loc,
                   in_data, current_write_loc, next_loc, p_ret, p_call_full, p_call_seen_full,
                   cons_vars, mem_vars, test_vars, hist_vars, obs_vars>>

\* if constexpr (enable_prefetch) sw_prefetch_write(&queue[current_write_loc]);
\* queue[current_write_loc] = in_data;
EnqWriteSlot ==
    /\ p_pc = "e_write"
    /\ queue' = [queue EXCEPT ![current_write_loc] = in_data]
    /\ p_pc' = "e_store"
    /\ p_steps' = p_steps + 1
    /\ UNCHANGED <<capacity, write_next, read_next, cached_read_loc, cached_write_loc,
                   in_data, current_write_loc, next_loc, p_ret, p_call_full, p_call_seen_full,
                   cons_vars, mem_vars, test_vars, hist_vars, obs_vars>>

\* write_next.r_w_index.store(next_loc, release); return true;
EnqStoreWrite ==
    /\ p_pc = "e_store"
    /\ write_next' = next_loc
    /\ p_pc' = "ret"
    /\ p_ret' = "true"
    /\ p_steps' = p_steps + 1
    /\ enqueued' = Append(enqueued, in_data)
    /\ ObserveReturn(Rec("enq", in_data, "true", out_data, next_loc, read_next, queue,
                         cached_read_loc, cached_write_loc))
    /\ UNCHANGED <<capacity, queue, read_next, cached_read_loc, cached_write_loc,
                   in_data, current_write_loc, next_loc, p_call_full, p_call_seen_full,
                   cons_vars, mem_vars, test_vars, dequeued>>

\* ------------------------------------------------------------- try_dequeue
\* The call: out_data is bound to the caller's variable.
DeqEnter ==
    /\ c_pc' = "d_load"
    /\ c_ret' = "none"
    /\ c_steps' = 0
    /\ c_call_empty' = IsEmpty(write_next, read_next)
    /\ c_call_seen_empty' = IsEmpty(write_seen, read_next)
    /\ ObserveCall(p_pc \in InEnqueue, write_seen # write_next)
    /\ UNCHANGED <<current_read_loc, out_data>>

\* auto current_read_loc = read_next.r_w_index.load(relaxed);
DeqLoadRead ==
    /\ c_pc = "d_load"
    /\ current_read_loc' = read_next
    /\ c_pc' = "d_check"
    /\ c_steps' = c_steps + 1
    /\ UNCHANGED <<queue_vars, prod_vars, out_data, c_ret, c_call_empty, c_call_seen_empty,
                   mem_vars, test_vars, hist_vars, obs_vars>>

\* if (current_read_loc == cached_write_loc) { ... }
DeqCheckCache ==
    /\ c_pc = "d_check"
    /\ c_pc' = IF DeqCacheMiss(current_read_loc, cached_write_loc) THEN "d_acquire" ELSE "d_read"
    /\ c_steps' = c_steps + 1
    /\ UNCHANGED <<queue_vars, prod_vars, current_read_loc, out_data, c_ret, c_call_empty, c_call_seen_empty,
                   mem_vars, test_vars, hist_vars, obs_vars>>

\* Mutant: the loaded cursor is compared but not kept, the snapshot stays as it was.
DeqAcquireWrite_nocache ==
    /\ c_pc = "d_acquire"
    /\ c_steps' = c_steps + 1
    /\ IF DeqEmpty(current_read_loc, write_seen)
          THEN /\ c_pc' = "ret"
               /\ c_ret' = "false"
               /\ ObserveReturn(Rec("deq", Indeterminate, "false", out_data,
                                    write_next, read_next, queue,
                                    cached_read_loc, cached_write_loc))
          ELSE /\ c_pc' = "d_read"
               /\ c_ret' = c_ret
               /\ UNCHANGED obs_vars
    /\ UNCHANGED <<queue_vars, prod_vars, current_read_loc, out_data, c_call_empty, c_call_seen_empty,
                   mem_vars, test_vars, hist_vars>>

\* Mutant: the slot is copied to out_data before the emptiness check.
DeqAcquireWrite_copies ==
    /\ c_pc = "d_acquire"
    /\ cached_write_loc' = write_seen
    /\ c_steps' = c_steps + 1
    /\ IF queue[current_read_loc] = Indeterminate
          THEN out_data' \in Garbage
          ELSE out_data' = queue[current_read_loc]
    /\ IF DeqEmpty(current_read_loc, write_seen)
          THEN /\ c_pc' = "ret"
               /\ c_ret' = "false"
               /\ ObserveReturn(Rec("deq", Indeterminate, "false", out_data',
                                    write_next, read_next, queue,
                                    cached_read_loc, write_seen))
          ELSE /\ c_pc' = "d_read"
               /\ c_ret' = c_ret
               /\ UNCHANGED obs_vars
    /\ UNCHANGED <<capacity, queue, write_next, read_next, cached_read_loc,
                   prod_vars, current_read_loc, c_call_empty, c_call_seen_empty,
                   mem_vars, test_vars, hist_vars>>

\* cached_write_loc = write_next.r_w_index.load(acquire);
\* if (current_read_loc == cached_write_loc) return false;
\* The load returns the newest store of the producer that is visible to the consumer.
DeqAcquireWrite ==
    /\ c_pc = "d_acquire"
    /\ cached_write_loc' = write_seen
    /\ c_steps' = c_steps + 1
    /\ IF DeqEmpty(current_read_loc, write_seen)
          THEN /\ c_pc' = "ret"
               /\ c_ret' = "false"
               /\ ObserveReturn(Rec("deq", Indeterminate, "false", out_data,
                                    write_next, read_next, queue,
                                    cached_read_loc, write_seen))
          ELSE /\ c_pc' = "d_read"
               /\ c_ret' = c_ret
               /\ UNCHANGED obs_vars
    /\ UNCHANGED <<capacity, queue, write_next, read_next, cached_read_loc,
                   prod_vars, current_read_loc, out_data, c_call_empty, c_call_seen_empty,
                   mem_vars, test_vars, hist_vars>>

\* if constexpr (enable_prefetch) sw_prefetch_read(&queue[current_read_loc]);
\* out_data = queue[current_read_loc];
\* Copying a slot that was never assigned yields any value.
DeqReadSlot ==
    /\ c_pc = "d_read"
    /\ IF queue[current_read_loc] = Indeterminate
          THEN out_data' \in Garbage
          ELSE out_data' = queue[current_read_loc]
    /\ c_pc' = "d_store"
    /\ c_steps' = c_steps + 1
    /\ UNCHANGED <<queue_vars, prod_vars, current_read_loc, c_ret, c_call_empty, c_call_seen_empty,
                   mem_vars, test_vars, hist_vars, obs_vars>>

\* Mutant: the consumer clears the slot it has just released.
DeqStoreRead_clears ==
    /\ c_pc = "d_store"
    /\ read_next' = increment(current_read_loc)
    /\ queue' = [queue EXCEPT ![current_read_loc] = Indeterminate]
    /\ c_pc' = "ret"
    /\ c_ret' = "true"
    /\ c_steps' = c_steps + 1
    /\ dequeued' = Append(dequeued, out_data)
    /\ ObserveReturn(Rec("deq", Indeterminate, "true", out_data,
                         write_next, increment(current_read_loc), queue',
                         cached_read_loc, cached_write_loc))
    /\ UNCHANGED <<capacity, write_next, cached_read_loc, cached_write_loc,
                   prod_vars, current_read_loc, out_data, c_call_empty, c_call_seen_empty,
                   mem_vars, test_vars, enqueued>>

\* read_next.r_w_index.store(increment(current_read_loc), release); return true;
DeqStoreRead ==
    /\ c_pc = "d_store"
    /\ read_next' = increment(current_read_loc)
    /\ c_pc' = "ret"
    /\ c_ret' = "true"
    /\ c_steps' = c_steps + 1
    /\ dequeued' = Append(dequeued, out_data)
    /\ ObserveReturn(Rec("deq", Indeterminate, "true", out_data,
                         write_next, increment(current_read_loc), queue,
                         cached_read_loc, cached_write_loc))
    /\ UNCHANGED <<capacity, queue, write_next, cached_read_loc, cached_write_loc,
                   prod_vars, current_read_loc, out_data, c_call_empty, c_call_seen_empty,
                   mem_vars, test_vars, enqueued>>

\* ------------------------------------------------------------- memory
\* write_next.r_w_index.store(next_loc, release) becomes visible to the consumer:
\* its loads return the store after the one they returned (every store advances
\* the cursor by increment).
WriteVisible ==
    /\ write_seen # write_next
    /\ write_seen' = increment(write_seen)
    /\ UNCHANGED <<queue_vars, read_seen, prod_vars, cons_vars, test_vars, hist_vars, obs_vars>>

\* read_next.r_w_index.store(increment(current_read_loc), release) becomes
\* visible to the producer.
ReadVisible ==
    /\ read_seen # read_next
    /\ read_seen' = increment(read_seen)
    /\ UNCHANGED <<queue_vars, write_seen, prod_vars, cons_vars, test_vars, hist_vars, obs_vars>>

ProducerStep == EnqLoadWrite \/ EnqCheckCache \/ EnqAcquireRead \/ EnqWriteSlot \/ EnqStoreWrite
ConsumerStep == DeqLoadRead \/ DeqCheckCache \/ DeqAcquireWrite \/ DeqReadSlot \/ DeqStoreRead

\* ------------------------------------------------------------- free clients
\* One producer thread calling try_enqueue again and again, when it likes.  T is
\* trivially copyable and the queue only copies it, so the values are taken all
\* different: the k-th value that gets in is k, and a refused value is the one
\* offered by the next call (as the producer of dispatchThreads does).
EnqCall ==
    /\ p_pc \in {"idle", "ret"}
    /\ Len(enqueued) < capacity + MaxWrap
    /\ EnqEnter(Len(enqueued) + 1)
    /\ UNCHANGED <<queue_vars, cons_vars, mem_vars, test_vars, hist_vars>>

\* One consumer thread calling try_dequeue again and again, when it likes.
DeqCall ==
    /\ c_pc \in {"idle", "ret"}
    /\ DeqEnter
    /\ UNCHANGED <<queue_vars, prod_vars, mem_vars, test_vars, hist_vars>>

\* The observer starts a new watch while no call is in progress.
Watch ==
    /\ budget = 0
    /\ capacity <= MaxWatchCapacity
    /\ p_pc \notin InEnqueue
    /\ c_pc \notin InDequeue
    /\ anchor' = Snapshot(write_next, read_next, queue,
                          cached_read_loc, cached_write_loc, out_data)
    /\ run' = <<>>
    /\ budget' = MaxRun
    /\ synced' = TRUE
    /\ UNCHANGED <<queue_vars, prod_vars, cons_vars, mem_vars, test_vars, hist_vars>>

Init == Construct /\ Threads(0, <<>>, 0)

Next ==
    \/ EnqCall
    \/ EnqLoadWrite
    \/ EnqCheckCache
    \/ EnqAcquireRead
    \/ EnqWriteSlot
    \/ EnqStoreWrite
    \/ DeqCall
    \/ DeqLoadRead
    \/ DeqCheckCache
    \/ DeqAcquireWrite
    \/ DeqReadSlot
    \/ DeqStoreRead
    \/ WriteVisible
    \/ ReadVisible
    \/ Watch

Spec == Init /\ [][Next]_vars

\* ------------------------------------------------------------- dispatchThreads
\* Both lambdas capture dispatchThreads' by-value parameter number by reference
\* ([&]).  While dispatchThreads has not returned a read of number gives the
\* value passed; once it has returned the reference dangles and a read gives
\* whatever is in that storage, any std::uint64_t.  The producer is followed
\* while i <= MaxNumber, so at most MaxNumber + 1 values get in: the values up to
\* MaxNumber + 1 are told apart and LargeNumber is read for every value above
\* them, which exceeds i whatever i is and is not counted down to 0.
LargeNumber == 2147483647

NumberRead == IF returned THEN 0..(MaxNumber + 1) \cup {LargeNumber} ELSE {number}

\* return {std::move(producer), std::move(consumer)};
DispatchReturn ==
    /\ ~ returned
    /\ returned' = TRUE
    /\ UNCHANGED <<queue_vars, mem_vars, prod_vars, cons_vars, number, i, decrementor,
                   script, hist_vars, obs_vars>>

\* The producer lambda is followed while its counter is in this range; what the
\* thread does beyond it (go on or leave the loop) is not part of the model.
Followed == i <= MaxNumber

\* for (uint64_t i = 0; i < number; ++i) { while (!queue.try_enqueue(i)) ... }
ProducerFor ==
    /\ p_pc = "idle"
    /\ Followed
    /\ \E n \in NumberRead :
          IF i < n
             THEN EnqEnter(i)
             ELSE /\ p_pc' = "exit"
                  /\ UNCHANGED <<in_data, current_write_loc, next_loc, p_ret, p_steps,
                                 p_call_full, p_call_seen_full, obs_vars>>
    /\ UNCHANGED <<queue_vars, cons_vars, mem_vars, test_vars, hist_vars>>

\* while (!queue.try_enqueue(i)) { std::this_thread::yield(); }  then ++i
ProducerWhile ==
    /\ p_pc = "ret"
    /\ IF p_ret = "true"
          THEN /\ i' = i + 1
               /\ p_pc' = "idle"
               /\ UNCHANGED <<in_data, current_write_loc, next_loc, p_ret, p_steps,
                              p_call_full, p_call_seen_full, obs_vars>>
          ELSE /\ EnqEnter(i)
               /\ i' = i
    /\ UNCHANGED <<queue_vars, mem_vars, cons_vars, number, returned, decrementor, script,
                   hist_vars>>

\* uint64_t decrementor = number;
ConsumerInit ==
    /\ c_pc = "idle"
    /\ decrementor = Indeterminate
    /\ decrementor' \in NumberRead
    /\ UNCHANGED <<queue_vars, mem_vars, prod_vars, cons_vars, number, returned, i, script,
                   hist_vars, obs_vars>>

\* while (decrementor > 0) { if (queue.try_dequeue(dequeued_value)) ...
ConsumerWhile ==
    /\ c_pc = "idle"
    /\ decrementor # Indeterminate
    /\ IF decrementor > 0
          THEN DeqEnter
          ELSE /\ c_pc' = "exit"
               /\ UNCHANGED <<current_read_loc, out_data, c_ret, c_steps,
                              c_call_empty, c_call_seen_empty, obs_vars>>
    /\ UNCHANGED <<queue_vars, prod_vars, mem_vars, test_vars, hist_vars>>

\* if (queue.try_dequeue(dequeued_value)) decrementor--; else yield();
ConsumerIf ==
    /\ c_pc = "ret"
    /\ decrementor' = IF c_ret = "true" THEN decrementor - 1 ELSE decrementor
    /\ c_pc' = "idle"
    /\ UNCHANGED <<queue_vars, prod_vars, current_read_loc, out_data, c_ret, c_steps,
                   c_call_empty, c_call_seen_empty, mem_vars, number, returned, i, script,
                   hist_vars, obs_vars>>

ProducerThread == ProducerFor \/ ProducerWhile \/ ProducerStep
ConsumerThread == ConsumerInit \/ ConsumerWhile \/ ConsumerIf \/ ConsumerStep

\* runSim: QueueType queue; dispatchThreads(queue, number);
InitStress == Construct /\ \E n \in 1..MaxNumber : Threads(n, <<>>, 0)

NextStress ==
    \/ DispatchReturn
    \/ ProducerFor
    \/ ProducerWhile
    \/ EnqLoadWrite
    \/ EnqCheckCache
    \/ EnqAcquireRead
    \/ EnqWriteSlot
    \/ EnqStoreWrite
    \/ ConsumerInit
    \/ ConsumerWhile
    \/ ConsumerIf
    \/ DeqLoadRead
    \/ DeqCheckCache
    \/ DeqAcquireWrite
    \/ DeqReadSlot
    \/ DeqStoreRead
    \/ WriteVisible
    \/ ReadVisible

\* dispatchThreads returns, both std::threads are scheduled again and again
\* until they return, and every store becomes visible to the other thread.
SpecStress ==
    /\ InitStress
    /\ [][NextStress]_vars
    /\ WF_vars(DispatchReturn)
    /\ WF_vars(ProducerThread)
    /\ WF_vars(ConsumerThread)
    /\ WF_vars(WriteVisible)
    /\ WF_vars(ReadVisible)

\* ------------------------------------------------------------- scripted client
\* One thread that makes the calls of a script one after the other; the stores
\* of its earlier calls are visible to it (they come before in program order).
Call(op, arg) == [op |-> op, arg |-> arg]

ScriptCall ==
    /\ script # <<>>
    /\ p_pc \in {"idle", "ret"}
    /\ c_pc \in {"idle", "ret"}
    /\ read_seen = read_next
    /\ write_seen = write_next
    /\ script' = Tail(script)
    /\ IF Head(script).op = "enq"
          THEN EnqEnter(Head(script).arg) /\ UNCHANGED cons_vars
          ELSE DeqEnter /\ UNCHANGED prod_vars
    /\ UNCHANGED <<queue_vars, mem_vars, number, returned, i, decrementor, hist_vars>>

\* enqueue 1..c-1, enqueue c (full), dequeue, enqueue c, dequeue c-1 times, dequeue (empty)
WrapScript(c) ==
    [k \in 1..(c - 1) |-> Call("enq", k)]
    \o <<Call("enq", c), Call("deq", Indeterminate), Call("enq", c)>>
    \o [k \in 1..c |-> Call("deq", Indeterminate)]

\* rot enqueue/dequeue pairs, which leave an empty queue with both cursors at rot
Rotation(rot) ==
    [k \in 1..(2 * rot) |->
        IF k % 2 = 1 THEN Call("enq", 0) ELSE Call("deq", Indeterminate)]

InitWrap ==
    /\ Construct
    /\ \E rot \in 0..(capacity - 1) :
          Threads(0, Rotation(rot) \o WrapScript(capacity),
                  Len(Rotation(rot) \o WrapScript(capacity)))

NextWrap ==
    \/ ScriptCall
    \/ EnqLoadWrite
    \/ EnqCheckCache
    \/ EnqAcquireRead
    \/ EnqWriteSlot
    \/ EnqStoreWrite
    \/ DeqLoadRead
    \/ DeqCheckCache
    \/ DeqAcquireWrite
    \/ DeqReadSlot
    \/ DeqStoreRead
    \/ WriteVisible
    \/ ReadVisible

SpecWrap == InitWrap /\ [][NextWrap]_vars

\* ------------------------------------------------------------- index client
\* One thread that takes a fresh queue once round: capacity enqueue/dequeue
\* pairs, so that increment is applied to every index of every capacity.
IndexCapacities == {c \in 0..MaxIndexCapacity : CapacityAllowed(c)}

InitIndex ==
    /\ capacity \in IndexCapacities
    /\ queue = [k \in 0..(capacity - 1) |-> Indeterminate]
    /\ write_next = 0
    /\ read_next = 0
    /\ cached_read_loc = 0
    /\ cached_write_loc = 0
    /\ read_seen = 0
    /\ write_seen = 0
    /\ Threads(0, Rotation(capacity), 0)

SpecIndex == InitIndex /\ [][NextWrap]_vars

\* ------------------------------------------------------------- properties
IsPrefix(s, t) == Len(s) <= Len(t) /\ \A k \in 1..Len(s) : s[k] = t[k]

\* Elements held: successful enqueues minus successful dequeues.
Held == Len(enqueued) - Len(dequeued)

\* The state the k-th call of the observer's run started in.
Pre(k) == IF k = 1 THEN anchor ELSE run[k - 1]

\* The step in which a call returns.
EnqReturnsTrue == p_ret = "none" /\ p_ret' = "true"
EnqReturnsFalse == p_ret = "none" /\ p_ret' = "false"
DeqReturnsTrue == c_ret = "none" /\ c_ret' = "true"
DeqReturnsFalse == c_ret = "none" /\ c_ret' = "false"

\* C1 (FIFO): in every interleaving of one producer and one consumer the values
\* returned by the successful try_dequeue calls are a prefix of the values passed
\* to the successful try_enqueue calls, and the two sequences are equal whenever
\* the queue is drained (readCursor == writeCursor).
C1_Fifo ==
    /\ IsPrefix(dequeued, enqueued)
    /\ IsEmpty(write_next, read_next) => dequeued = enqueued

\* C1 witness: capacity 4, more values than slots went through (the cursors
\* wrapped), and the queue is drained.
C1_Witness ==
    /\ capacity = 4
    /\ Len(dequeued) > capacity
    /\ IsEmpty(write_next, read_next)
    /\ dequeued = enqueued

\* A run of try_enqueue calls that started on an empty queue, no dequeue in between.
EnqueuesFromEmpty ==
    /\ IsEmpty(anchor.w, anchor.r)
    /\ \A k \in 1..Len(run) : run[k].op = "enq"

FirstFit == \A k \in 1..Len(run) : run[k].ret = IF k <= capacity - 1 THEN "true" ELSE "false"

\* C2 as the spec states it: the number of elements held equals
\* (writeCursor - readCursor) mod C and is at most C-1; and in a run of
\* try_enqueue calls that starts on an empty queue with no dequeue in between,
\* the first C-1 calls return true and every later one returns false.
C2_Original ==
    /\ Held = (write_next - read_next) % capacity
    /\ Held <= capacity - 1
    /\ EnqueuesFromEmpty => FirstFit

\* C2 (capacity bound, amended): the number of elements held equals
\* (writeCursor - readCursor) mod C and is at most C-1; in a run of try_enqueue
\* calls that starts on an empty queue with no dequeue in between, made when the
\* consumer's readCursor stores are visible to the producer, the first C-1 calls
\* return true and every later one returns false; when a store is not yet
\* visible a call may be refused earlier, and a call on a full queue is refused
\* in any case.
C2_CapacityBound ==
    /\ Held = (write_next - read_next) % capacity
    /\ Held <= capacity - 1
    /\ (EnqueuesFromEmpty /\ synced) => FirstFit
    /\ EnqueuesFromEmpty =>
          \A k \in 1..Len(run) : IsFull(Pre(k).w, Pre(k).r) => run[k].ret = "false"

\* C2 witness: capacity 4, a run of four enqueues from an empty queue whose
\* cursors are not at 0, the consumer's stores visible; the fourth was refused.
C2_Witness ==
    /\ capacity = 4
    /\ synced
    /\ anchor.w = anchor.r
    /\ anchor.w # 0
    /\ Len(run) = 4
    /\ \A k \in 1..4 : run[k].op = "enq"
    /\ run[4].ret = "false"
    /\ Held = capacity - 1

\* The parts of C3 as the spec states it: what holds of every state, and of the
\* step that returns false.
C3_StartState ==
    /\ \A k \in 1..Len(run) :
          /\ run[k].op = "enq" => (run[k].ret = "false" <=> IsFull(Pre(k).w, Pre(k).r))
          /\ run[k].op = "deq" => (run[k].ret = "false" <=> IsEmpty(Pre(k).w, Pre(k).r))
    /\ p_ret = "false" => p_call_full
    /\ c_ret = "false" => c_call_empty

C3_AtLoad ==
    /\ (p_ret = "none" /\ p_ret' = "false") => IsFull(write_next, read_next)
    /\ (c_ret = "none" /\ c_ret' = "false") => IsEmpty(write_next, read_next)

\* C3 as the spec states it:
\*  - in a run of calls that do not overlap, try_enqueue returns false iff
\*    advance(writeCursor) == readCursor when it is called and try_dequeue
\*    returns false iff readCursor == writeCursor when it is called;
\*  - under concurrency, a call that returned false started on a full (resp.
\*    empty) queue, so a call that starts on a queue that is not full (resp. not
\*    empty) never returns false;
\*  - the step that returns false is the acquire load, and the queue is full
\*    (resp. empty) at the instant of that load.
C3_Original == [](C3_StartState) /\ [][C3_AtLoad]_vars

\* The parts of C3, amended: full and empty going by the value of the other
\* side's cursor that is visible to the caller.
C3_SeenState ==
    /\ \A k \in 1..Len(run) :
          /\ run[k].op = "enq" =>
                /\ IsFull(Pre(k).w, Pre(k).r) => run[k].ret = "false"
                /\ synced => (run[k].ret = "false" <=> IsFull(Pre(k).w, Pre(k).r))
          /\ run[k].op = "deq" =>
                /\ IsEmpty(Pre(k).w, Pre(k).r) => run[k].ret = "false"
                /\ synced => (run[k].ret = "false" <=> IsEmpty(Pre(k).w, Pre(k).r))
    /\ p_ret = "false" => p_call_seen_full
    /\ c_ret = "false" => c_call_seen_empty

C3_SeenAtLoad ==
    /\ EnqReturnsFalse => p_pc = "e_acquire" /\ IsFull(write_next, read_seen)
    /\ DeqReturnsFalse => c_pc = "d_acquire" /\ IsEmpty(write_seen, read_next)
    /\ (p_pc = "e_acquire" /\ p_pc' # p_pc) =>
          (EnqReturnsFalse <=> IsFull(write_next, read_seen))
    /\ (c_pc = "d_acquire" /\ c_pc' # c_pc) =>
          (DeqReturnsFalse <=> IsEmpty(write_seen, read_next))
    /\ (p_pc = "e_check" /\ p_pc' = "e_write") => ~ IsFull(write_next, read_seen)
    /\ (c_pc = "d_check" /\ c_pc' = "d_read") => ~ IsEmpty(write_seen, read_next)

\* C3 (failure exactly when full / empty, amended):
\*  - the step that returns false is the acquire load, and the queue is full
\*    (resp. empty) going by the value that load returns, which is the other
\*    side's cursor as far as its stores are visible to the caller; an acquire
\*    load that finds the queue not full (resp. not empty) by that value goes on
\*    to the slot, and so does a call that skips the load, which happens only
\*    when the queue is not full (resp. not empty) by that value;
\*  - a call that starts when the queue is not full (resp. not empty) going by
\*    the visible value never returns false;
\*  - in a run of calls that do not overlap, a try_enqueue called on a full
\*    queue and a try_dequeue called on an empty queue return false, and when
\*    every store of the other side is visible to the caller try_enqueue
\*    returns false iff advance(writeCursor) == readCursor and try_dequeue
\*    returns false iff readCursor == writeCursor.
C3_FailureExact == [](C3_SeenState) /\ [][C3_SeenAtLoad]_vars

\* C3 witness: a run of calls that do not overlap, each made with the other
\* side's stores visible, in which an enqueue was refused and a dequeue
\* succeeded, on a queue of capacity 4 whose cursors had moved.
C3_Witness ==
    /\ capacity = 4
    /\ synced
    /\ anchor.w # 0
    /\ Len(run) >= 2
    /\ \E k \in 1..Len(run) : run[k].op = "enq" /\ run[k].ret = "false"
    /\ \E k \in 1..Len(run) : run[k].op = "deq" /\ run[k].ret = "true"

\* The parts of C4: what holds of every observed run, and of every early step of a call.
C4_FailedRun ==
    \A k \in 1..Len(run) :
        /\ run[k].ret = "false" =>
              /\ run[k].w = Pre(k).w
              /\ run[k].r = Pre(k).r
              /\ run[k].q = Pre(k).q
        /\ (run[k].op = "enq" /\ IsFull(Pre(k).w, Pre(k).r)) => run[k].ret = "false"
        /\ (run[k].op = "deq" /\ IsEmpty(Pre(k).w, Pre(k).r)) => run[k].ret = "false"

C4_FailedStep ==
    /\ (p_pc \in {"e_load", "e_check", "e_acquire"} /\ p_pc' # p_pc)
          => UNCHANGED <<write_next, read_next, queue>>
    /\ (c_pc \in {"d_load", "d_check", "d_acquire"} /\ c_pc' # c_pc)
          => UNCHANGED <<write_next, read_next, queue>>

\* C4 (a failed call mutates nothing, failure is idempotent):
\*  - no step a call takes up to and including the one that returns false changes
\*    writeCursor, readCursor or a slot (these are the steps before the slot
\*    access: the load of the own cursor, the cache check, the acquire load);
\*  - in a run of calls that do not overlap, a call that returned false left the
\*    cursors and every slot as they were, so the queue it was called on is the
\*    queue the next call finds; and every try_enqueue called on a full queue
\*    and every try_dequeue called on an empty queue returns false, however many
\*    times it is repeated.
C4_FailureIsClean == [](C4_FailedRun) /\ [][C4_FailedStep]_vars

\* C4 witness: three refused enqueues in a row on a full queue of capacity 4,
\* the last one with a value that differs from the slot it would have written.
C4_Witness ==
    /\ capacity = 4
    /\ Len(run) = 3
    /\ \A k \in 1..3 : run[k].op = "enq" /\ run[k].ret = "false"
    /\ run[3].arg # run[3].q[run[3].w]
    /\ run[3].w = anchor.w
    /\ p_pc = "ret"

\* Slots published and not yet released: readCursor .. writeCursor-1, cyclically.
PendingSlots == {(read_next + k) % capacity : k \in 0..(Held - 1)}

\* C5 (slot ownership is exclusive): the producer is never between its room check
\* and its writeCursor store while the consumer is between its availability check
\* and its readCursor store on the same slot index, and the slot the producer
\* writes is never one that is published and not yet released.
C5_SlotExclusive ==
    /\ ~ (/\ p_pc \in {"e_write", "e_store"}
          /\ c_pc \in {"d_read", "d_store"}
          /\ current_write_loc = current_read_loc)
    /\ p_pc \in {"e_write", "e_store"} => current_write_loc \notin PendingSlots

\* C5 witness: both threads are inside those windows at once, on different
\* slots, after the write cursor wrapped past the read cursor.
C5_Witness ==
    /\ capacity = 4
    /\ p_pc = "e_store"
    /\ c_pc = "d_read"
    /\ current_write_loc < current_read_loc
    /\ Held = capacity - 2

\* Both lambdas have returned, the consumer has counted number successes, the
\* values it got are 0, 1, ..., number-1 in this order, and the queue is empty.
StressDone ==
    /\ p_pc = "exit"
    /\ c_pc = "exit"
    /\ i = number
    /\ decrementor = 0
    /\ dequeued = [k \in 1..number |-> k - 1]
    /\ IsEmpty(write_next, read_next)

\* C6 (the stress run terminates): with the producer lambda enqueuing 0..number-1,
\* retrying each try_enqueue until it succeeds, and the consumer lambda retrying
\* try_dequeue until it has counted number successes, under weak fairness of both
\* threads both loops eventually finish with exactly number values consumed, in
\* the order 0, 1, ..., number-1, and the queue empty.  The claim is stated of
\* the behaviours that are followed to their end: a behaviour in which the
\* producer's counter leaves the range followed (it has then enqueued more than
\* number values, so it never finishes as claimed either) counts as no failure.
\* (The lambdas read number through a reference that dangles once
\* dispatchThreads has returned, so the loops need not run number times.)
C6_StressTerminates == <>(StressDone \/ ~ Followed)

\* C6 witness: dispatchThreads(queue, 4) on capacity 4; the consumer read 0 for
\* number after dispatchThreads had returned and left without calling
\* try_dequeue, the producer has filled the queue and its try_enqueue(3) has been
\* refused, as it will be for ever.
C6_Witness ==
    /\ capacity = 4
    /\ number = MaxNumber
    /\ returned
    /\ c_pc = "exit"
    /\ decrementor = 0
    /\ dequeued = <<>>
    /\ enqueued = <<0, 1, 2>>
    /\ p_pc = "ret"
    /\ p_ret = "false"
    /\ i = 3

\* The three states of the spec's state machine.
Class(w, r) == IF IsEmpty(w, r) THEN "Empty" ELSE IF IsFull(w, r) THEN "Full" ELSE "Partial"

\* The transitions the spec's state machine lists, read literally.
C7_OriginalStep ==
    LET a == Class(write_next, read_next)
        b == Class(write_next', read_next')
    IN  /\ EnqReturnsTrue => <<a, b>> \in {<<"Empty", "Partial">>, <<"Partial", "Full">>}
        /\ DeqReturnsTrue => <<a, b>> \in {<<"Full", "Partial">>, <<"Partial", "Empty">>}
        /\ a # b => EnqReturnsTrue \/ DeqReturnsTrue
        /\ (EnqReturnsFalse \/ DeqReturnsFalse) => a = b

\* C7 as the spec states it: for every allowed capacity a successful try_enqueue
\* moves Empty->Partial or Partial->Full, a successful try_dequeue moves
\* Full->Partial or Partial->Empty, the state changes in no other way, and a
\* failed call does not change it.
C7_Original == [][C7_OriginalStep]_vars

\* The transitions the code makes.
C7_AmendedStep ==
    LET a == Class(write_next, read_next)
        b == Class(write_next', read_next')
    IN  /\ EnqReturnsTrue =>
              IF capacity = 2
                 THEN <<a, b>> = <<"Empty", "Full">>
                 ELSE <<a, b>> \in {<<"Empty", "Partial">>, <<"Partial", "Partial">>,
                                    <<"Partial", "Full">>}
        /\ DeqReturnsTrue =>
              IF capacity = 2
                 THEN <<a, b>> = <<"Full", "Empty">>
                 ELSE <<a, b>> \in {<<"Full", "Partial">>, <<"Partial", "Partial">>,
                                    <<"Partial", "Empty">>}
        /\ a # b => EnqReturnsTrue \/ DeqReturnsTrue
        /\ (EnqReturnsFalse \/ DeqReturnsFalse) => a = b

\* C7 (state machine, amended): a successful try_enqueue moves Empty->Partial,
\* Partial->Partial or Partial->Full when capacity > 2 and Empty->Full when
\* capacity = 2 (which has no Partial state); a successful try_dequeue moves
\* Full->Partial, Partial->Partial or Partial->Empty when capacity > 2 and
\* Full->Empty when capacity = 2; only the step that completes a successful call
\* changes the state, and a failed call never does.
C7_StateMachine == [][C7_AmendedStep]_vars

\* C7 witness: capacity 4, the queue is Full again after values were dequeued, so
\* it went Empty -> Partial -> Partial -> Full -> Partial -> Full.
C7_Witness ==
    /\ capacity = 4
    /\ Class(write_next, read_next) = "Full"
    /\ Len(dequeued) >= 2
    /\ p_ret = "true"
    /\ c_ret = "true"

\* The parts of C8: the step bound of a call, and its single commit.
C8_Bounded ==
    /\ p_pc \in InEnqueue => (ENABLED ProducerStep) /\ p_steps < Cardinality(InEnqueue)
    /\ c_pc \in InDequeue => (ENABLED ConsumerStep) /\ c_steps < Cardinality(InDequeue)
    /\ p_pc = "ret" => p_steps \in 3..Cardinality(InEnqueue)
    /\ c_pc = "ret" => c_steps \in 3..Cardinality(InDequeue)

C8_OneCommit ==
    /\ EnqReturnsTrue =>
          /\ write_next' = increment(write_next)
          /\ enqueued' = Append(enqueued, in_data)
    /\ (write_next' # write_next \/ enqueued' # enqueued) => EnqReturnsTrue
    /\ DeqReturnsTrue =>
          /\ read_next' = increment(read_next)
          /\ dequeued' = Append(dequeued, out_data)
    /\ (read_next' # read_next \/ dequeued' # dequeued) => DeqReturnsTrue

\* C8 (wait-free calls): a call in progress can always take its next step,
\* whatever state the other thread is in, and has taken fewer steps than there
\* are positions in the function (no position is visited twice), so it returns
\* after at most that many of its own steps; and a call commits exactly one
\* element (the cursor advances by one, once, in the step that returns true) or
\* fails and commits nothing.
C8_WaitFree == [](C8_Bounded) /\ [][C8_OneCommit]_vars

\* C8 witness: try_enqueue returned false after three steps of its own while the
\* consumer sits inside try_dequeue, one step before it would release a slot.
C8_Witness ==
    /\ p_pc = "ret"
    /\ p_ret = "false"
    /\ p_steps = 3
    /\ c_pc = "d_store"
    /\ capacity = 4

\* What a recorded call returned: the boolean and, for a successful dequeue, the value.
Result(rec) ==
    IF rec.op = "enq" THEN <<rec.ret>>
    ELSE IF rec.ret = "true" THEN <<rec.out, "true">> ELSE <<"false">>

RunCalls == [k \in 1..Len(run) |-> Call(run[k].op, run[k].arg)]

\* The bounded FIFO of the spec (at most capacity-1 elements) after the first k
\* calls of the run, starting empty, and what it answers to the k-th call.
RECURSIVE FifoAfter(_)
FifoAfter(k) ==
    IF k = 0 THEN <<>>
    ELSE LET f == FifoAfter(k - 1)
         IN  IF run[k].op = "enq"
                THEN IF Len(f) < capacity - 1 THEN Append(f, run[k].arg) ELSE f
                ELSE IF f = <<>> THEN f ELSE Tail(f)

FifoAnswer(k) ==
    LET f == FifoAfter(k - 1)
    IN  IF run[k].op = "enq"
           THEN <<IF Len(f) < capacity - 1 THEN "true" ELSE "false">>
           ELSE IF f = <<>> THEN <<"false">> ELSE <<Head(f), "true">>

\* The spec's wrap-around scenario and the results it lists.
WrapCalls ==
    <<Call("enq", 1), Call("enq", 2), Call("enq", 3), Call("enq", 4),
      Call("deq", Indeterminate), Call("enq", 4),
      Call("deq", Indeterminate), Call("deq", Indeterminate),
      Call("deq", Indeterminate), Call("deq", Indeterminate)>>

WrapResults ==
    <<<<"true">>, <<"true">>, <<"true">>, <<"false">>,
      <<1, "true">>, <<"true">>,
      <<2, "true">>, <<3, "true">>, <<4, "true">>, <<"false">>>>

\* C9 (wrap-around): on a fresh queue of capacity 4 the calls enqueue 1, 2, 3, 4,
\* dequeue, enqueue 4, dequeue x 4 return true, true, true, false, (1,true), true,
\* (2,true), (3,true), (4,true), false; and for every capacity and every cursor
\* position the scenario starts at, each call answers as the bounded FIFO does,
\* also when a cursor wraps from capacity-1 to 0.
C9_WrapAround ==
    /\ (capacity = 4 /\ IsPrefix(RunCalls, WrapCalls))
          => \A k \in 1..Len(run) : Result(run[k]) = WrapResults[k]
    /\ \A k \in 1..Len(run) : Result(run[k]) = FifoAnswer(k)

\* C9 witness: the ten calls of the scenario have all returned on capacity 4.
C9_Witness ==
    /\ capacity = 4
    /\ RunCalls = WrapCalls
    /\ script = <<>>
    /\ p_pc = "ret"
    /\ c_pc = "ret"

\* C10 as the spec states it: in a run of calls that do not overlap, a
\* try_enqueue(v) called on an empty queue returns true, and a try_dequeue called
\* right after it returns true with the value v and leaves the queue empty.
C10_Original ==
    \A k \in 1..Len(run) :
        (IsEmpty(Pre(k).w, Pre(k).r) /\ run[k].op = "enq") =>
            /\ run[k].ret = "true"
            /\ (k < Len(run) /\ run[k + 1].op = "deq") =>
                  /\ run[k + 1].ret = "true"
                  /\ run[k + 1].out = run[k].arg
                  /\ IsEmpty(run[k + 1].w, run[k + 1].r)

\* C10 (round trip, amended): in a run of calls that do not overlap, each made
\* when the stores of the other side's earlier calls are visible to the caller,
\* a try_enqueue(v) called on an empty queue returns true, and a try_dequeue
\* called right after it returns true with the value v and leaves the queue
\* empty; whatever is visible, a try_dequeue that follows the try_enqueue(v) and
\* returns true returns v.
C10_RoundTrip ==
    \A k \in 1..Len(run) :
        /\ (/\ IsEmpty(Pre(k).w, Pre(k).r)
            /\ run[k].op = "enq"
            /\ run[k].ret = "true"
            /\ k < Len(run)
            /\ run[k + 1].op = "deq"
            /\ run[k + 1].ret = "true")
           => /\ run[k + 1].out = run[k].arg
              /\ IsEmpty(run[k + 1].w, run[k + 1].r)
        /\ synced =>
          ((IsEmpty(Pre(k).w, Pre(k).r) /\ run[k].op = "enq") =>
              /\ run[k].ret = "true"
              /\ (k < Len(run) /\ run[k + 1].op = "deq") =>
                    /\ run[k + 1].ret = "true"
                    /\ run[k + 1].out = run[k].arg
                    /\ IsEmpty(run[k + 1].w, run[k + 1].r))

\* C10 witness: a round trip that started on an empty queue whose cursors were at
\* the last slot and whose producer-side snapshot was stale; the enqueue wrapped
\* the write cursor and the value came back.
C10_Witness ==
    /\ capacity = 4
    /\ synced
    /\ anchor.w = capacity - 1
    /\ anchor.r = anchor.w
    /\ anchor.cr # anchor.r
    /\ Len(run) = 2
    /\ run[1].op = "enq"
    /\ run[2].op = "deq"
    /\ run[2].out = run[1].arg
    /\ run[2].out # anchor.q[anchor.w]

\* A call that skipped the acquire load has taken two steps when it reaches the slot.
EnqOnFastPath == p_pc = "e_write" /\ p_steps = 2
DeqOnFastPath == c_pc = "d_read" /\ c_steps = 2

\* The parts of C11: the step that skips the acquire load, and the state it leads to.
C11_SkipStep ==
    /\ (p_pc = "e_check" /\ p_pc' = "e_write") =>
          /\ next_loc # cached_read_loc
          /\ next_loc = increment(write_next)
          /\ ~ IsFull(write_next, read_next)
          /\ current_write_loc \notin PendingSlots
    /\ (c_pc = "d_check" /\ c_pc' = "d_read") =>
          /\ current_read_loc # cached_write_loc
          /\ current_read_loc = read_next
          /\ ~ IsEmpty(write_next, read_next)
          /\ current_read_loc \in PendingSlots

C11_AfterSkip ==
    /\ EnqOnFastPath =>
          /\ ~ IsFull(write_next, read_next)
          /\ current_write_loc = write_next
          /\ current_write_loc \notin PendingSlots
    /\ DeqOnFastPath =>
          /\ ~ IsEmpty(write_next, read_next)
          /\ current_read_loc = read_next
          /\ current_read_loc \in PendingSlots
          /\ queue[current_read_loc] # Indeterminate

\* C11 (fast-path soundness): whenever try_enqueue skips the acquire load because
\* advance(writeCursor) != cached_read_loc, the queue is not full in that state
\* (advance(writeCursor) != readCursor), it is still not full when the slot is
\* written, and the slot written is not pending consumption; whenever try_dequeue
\* skips the acquire load because readCursor != cached_write_loc, the queue is not
\* empty (readCursor != writeCursor) and the slot it reads has been published.
C11_FastPathSound == [](C11_AfterSkip) /\ [][C11_SkipStep]_vars

\* C11 witness: both threads are on the fast path at once, each with a snapshot
\* that is out of date, after the write cursor wrapped (capacity 8: with capacity 4
\* two stale snapshots leave no room for two fast paths).
C11_Witness ==
    /\ capacity = 8
    /\ EnqOnFastPath
    /\ DeqOnFastPath
    /\ cached_read_loc # read_next
    /\ cached_write_loc # write_next
    /\ write_next < read_next

\* The value passed to the oldest successful try_enqueue not yet consumed.
Oldest == enqueued[Len(dequeued) + 1]

\* The parts of C12: what the slots hold, and what the slot accesses and cursor stores do.
C12_Published ==
    /\ \A k \in 0..(Held - 1) :
          queue[(read_next + k) % capacity] = enqueued[Len(dequeued) + 1 + k]
    /\ c_pc = "d_read" =>
          /\ Len(dequeued) < Len(enqueued)
          /\ queue[current_read_loc] # Indeterminate
          /\ queue[current_read_loc] = Oldest
    /\ c_pc = "d_store" =>
          /\ Len(dequeued) < Len(enqueued)
          /\ out_data = Oldest
          /\ queue[current_read_loc] = Oldest

C12_Order ==
    /\ (c_pc = "d_read" /\ c_pc' = "d_store") =>
          /\ current_read_loc = read_next
          /\ out_data' = queue[current_read_loc]
          /\ out_data' = Oldest
    /\ EnqReturnsTrue =>
          /\ p_pc = "e_store"
          /\ queue[write_next] = in_data
          /\ queue' = queue
    /\ DeqReturnsTrue =>
          /\ c_pc = "d_store"
          /\ out_data = queue[read_next]
          /\ dequeued' = Append(dequeued, Oldest)

\* C12 (only published slots are read): every published slot holds the value of
\* the enqueue that filled it until it is released; the slot try_dequeue reads is
\* slot readCursor, it has been written, and the value read is the value passed to
\* the oldest successful try_enqueue not yet consumed, from the slot read until
\* the readCursor store; try_enqueue has written the slot when it stores
\* writeCursor and try_dequeue has read the slot when it stores readCursor.
C12_OnlyPublishedRead == [](C12_Published) /\ [][C12_Order]_vars

\* C12 witness: the consumer has read a slot that was filled for the second time
\* and has not released it yet, while the producer is about to publish another.
C12_Witness ==
    /\ capacity = 4
    /\ c_pc = "d_store"
    /\ p_pc = "e_store"
    /\ Len(dequeued) >= capacity
    /\ out_data = Len(dequeued) + 1
    /\ queue[current_write_loc] = in_data

\* The parts of C13: the step that returns false, and the call that has returned false.
C13_FalseStep ==
    /\ EnqReturnsFalse =>
          /\ p_pc = "e_acquire"
          /\ next_loc = increment(write_next)
          /\ read_seen = next_loc
          /\ cached_read_loc' = read_seen
    /\ DeqReturnsFalse =>
          /\ c_pc = "d_acquire"
          /\ current_read_loc = read_next
          /\ write_seen = current_read_loc
          /\ cached_write_loc' = write_seen
    /\ p_pc \in {"e_load", "e_check"} => p_ret' # "false"
    /\ c_pc \in {"d_load", "d_check"} => c_ret' # "false"

C13_FalseCall ==
    /\ (p_pc = "ret" /\ p_ret = "false") =>
          /\ p_steps = 3
          /\ cached_read_loc = next_loc
    /\ (c_pc = "ret" /\ c_ret = "false") =>
          /\ c_steps = 3
          /\ cached_write_loc = current_read_loc

\* C13 (full/empty is never concluded from a cached value alone): the step in
\* which try_enqueue returns false is the acquire load of readCursor, and the
\* value it loads equals advance(writeCursor); the step in which try_dequeue
\* returns false is the acquire load of writeCursor, and the value it loads
\* equals readCursor; no earlier step of a call returns false, and a call that
\* returned false took three steps: the load of its own cursor, the cache check
\* and the acquire load.
C13_Revalidated == [](C13_FalseCall) /\ [][C13_FalseStep]_vars

\* C13 witness: the producer was refused on a full queue and, after the consumer
\* drained it, the consumer was refused too; both calls went through the acquire load.
C13_Witness ==
    /\ capacity = 4
    /\ p_pc = "ret"
    /\ p_ret = "false"
    /\ c_pc = "ret"
    /\ c_ret = "false"
    /\ Len(dequeued) >= capacity - 1
    /\ p_steps = 3
    /\ c_steps = 3

Slots == 0..(capacity - 1)

\* The parts of C14: the freshly constructed queue, and the range of every index.
C14_Fresh ==
    /\ write_next = 0
    /\ read_next = 0
    /\ cached_read_loc = 0
    /\ cached_write_loc = 0
    /\ IsEmpty(write_next, read_next)

C14_InRange ==
    /\ DOMAIN queue = Slots
    /\ write_next \in Slots
    /\ read_next \in Slots
    /\ cached_read_loc \in Slots
    /\ cached_write_loc \in Slots
    /\ p_pc \in {"e_check", "e_acquire", "e_write", "e_store"} =>
          current_write_loc \in Slots /\ next_loc \in Slots
    /\ c_pc \in {"d_check", "d_acquire", "d_read", "d_store"} => current_read_loc \in Slots
    /\ enqueued = <<>> => IsEmpty(write_next, read_next) /\ write_next = 0

\* C14 (cursor range): a freshly constructed queue has both cursors and both
\* snapshots at 0 and is empty, and it stays empty with the cursors at 0 until a
\* try_enqueue succeeds; in every reachable state writeCursor, readCursor,
\* cached_read_loc and cached_write_loc are in [0, capacity), and so is the index
\* of every slot access queue[current_write_loc] and queue[current_read_loc].
C14_CursorRange == C14_Fresh /\ [](C14_InRange)

\* C14 witness: capacity 8, the producer is about to write the last slot and to
\* wrap the write cursor to 0, the read cursor and both snapshots have moved.
C14_Witness ==
    /\ capacity = 8
    /\ p_pc = "e_write"
    /\ current_write_loc = capacity - 1
    /\ next_loc = 0
    /\ read_next > 0
    /\ cached_read_loc > 0
    /\ cached_write_loc > 0

\* A step of a try_enqueue (resp. try_dequeue) call in progress.
EnqStep == p_pc \in InEnqueue /\ p_pc' # p_pc
DeqStep == c_pc \in InDequeue /\ c_pc' # c_pc

\* The parts of C15: what a step may change, and what a successful call has changed.
C15_StepFrame ==
    /\ EnqStep => UNCHANGED <<read_next, cached_write_loc, out_data>>
    /\ DeqStep => UNCHANGED <<write_next, cached_read_loc, queue>>
    /\ write_next' # write_next => EnqStep /\ p_pc = "e_store"
    /\ read_next' # read_next => DeqStep /\ c_pc = "d_store"
    /\ cached_read_loc' # cached_read_loc => EnqStep /\ p_pc = "e_acquire"
    /\ cached_write_loc' # cached_write_loc => DeqStep /\ c_pc = "d_acquire"
    /\ queue' # queue =>
          /\ EnqStep
          /\ p_pc = "e_write"
          /\ queue' = [queue EXCEPT ![write_next] = in_data]

C15_CallFrame ==
    \A k \in 1..Len(run) :
        /\ (run[k].op = "enq" /\ run[k].ret = "true") =>
              /\ run[k].q = [Pre(k).q EXCEPT ![Pre(k).w] = run[k].arg]
              /\ run[k].w = increment(Pre(k).w)
              /\ run[k].r = Pre(k).r
              /\ run[k].cw = Pre(k).cw
              /\ run[k].out = Pre(k).out
        /\ (run[k].op = "deq" /\ run[k].ret = "true") =>
              /\ run[k].r = increment(Pre(k).r)
              /\ run[k].w = Pre(k).w
              /\ run[k].q = Pre(k).q
              /\ run[k].cr = Pre(k).cr

\* C15 (single-writer frame): no step of try_enqueue changes readCursor or
\* cached_write_loc, no step of try_dequeue changes writeCursor, cached_read_loc
\* or a slot, and nothing else changes the cursors, the snapshots or the slots;
\* in a run of calls that do not overlap, a successful try_enqueue changed only
\* slot writeCursor (to its argument), writeCursor (to advance(writeCursor)) and
\* possibly cached_read_loc, and a successful try_dequeue changed only readCursor
\* (to advance(readCursor)) and possibly cached_write_loc, besides out_data.
C15_SingleWriter == [](C15_CallFrame) /\ [][C15_StepFrame]_vars

\* C15 witness: a run with a successful enqueue that refreshed cached_read_loc
\* and overwrote a slot, and a successful dequeue that refreshed cached_write_loc.
C15_Witness ==
    /\ capacity = 4
    /\ \E k \in 1..Len(run) :
          /\ run[k].op = "enq"
          /\ run[k].ret = "true"
          /\ run[k].cr # Pre(k).cr
          /\ Pre(k).q[Pre(k).w] # Indeterminate
    /\ \E k \in 1..Len(run) :
          /\ run[k].op = "deq"
          /\ run[k].ret = "true"
          /\ run[k].cw # Pre(k).cw

\* ------------------------------------------------------------- the uncached variant
\* The variant without snapshots decides on the acquire load in every call: it has
\* no cache check, so a call of the cached queue that stands at its cache check
\* stands, in the variant, at the acquire load.
UPc(pc) == IF pc = "e_check" THEN "e_acquire" ELSE IF pc = "d_check" THEN "d_acquire" ELSE pc

\* What the variant has in common with the cached queue.
u_queue == <<capacity, queue, write_next, read_next>>
u_prod == <<UPc(p_pc), in_data, current_write_loc, next_loc, p_ret>>
u_cons == <<UPc(c_pc), current_read_loc, out_data, c_ret>>
u_vars == <<u_queue, u_prod, u_cons, enqueued, dequeued>>

U_EnqCall ==
    /\ p_pc \in {"idle", "ret"}
    /\ p_pc' = "e_load"
    /\ p_ret' = "none"
    /\ UNCHANGED <<u_queue, current_write_loc, next_loc, u_cons, enqueued, dequeued>>

U_EnqLoadWrite ==
    /\ p_pc = "e_load"
    /\ current_write_loc' = write_next
    /\ next_loc' = increment(write_next)
    /\ UPc(p_pc') = "e_acquire"
    /\ UNCHANGED <<u_queue, in_data, p_ret, u_cons, enqueued, dequeued>>

\* if (next_loc == read_next.load(acquire)) return false;
\* (the load returns what a load by the producer returns: read_seen)
U_EnqAcquireRead ==
    /\ UPc(p_pc) = "e_acquire"
    /\ IF next_loc = read_seen
          THEN p_pc' = "ret" /\ p_ret' = "false"
          ELSE p_pc' = "e_write" /\ p_ret' = p_ret
    /\ UNCHANGED <<u_queue, in_data, current_write_loc, next_loc, u_cons, enqueued, dequeued>>

U_EnqWriteSlot ==
    /\ p_pc = "e_write"
    /\ queue' = [queue EXCEPT ![current_write_loc] = in_data]
    /\ p_pc' = "e_store"
    /\ UNCHANGED <<capacity, write_next, read_next, in_data, current_write_loc, next_loc,
                   p_ret, u_cons, enqueued, dequeued>>

U_EnqStoreWrite ==
    /\ p_pc = "e_store"
    /\ write_next' = next_loc
    /\ p_pc' = "ret"
    /\ p_ret' = "true"
    /\ enqueued' = Append(enqueued, in_data)
    /\ UNCHANGED <<capacity, queue, read_next, in_data, current_write_loc, next_loc,
                   u_cons, dequeued>>

U_DeqCall ==
    /\ c_pc \in {"idle", "ret"}
    /\ c_pc' = "d_load"
    /\ c_ret' = "none"
    /\ UNCHANGED <<u_queue, u_prod, current_read_loc, out_data, enqueued, dequeued>>

U_DeqLoadRead ==
    /\ c_pc = "d_load"
    /\ current_read_loc' = read_next
    /\ UPc(c_pc') = "d_acquire"
    /\ UNCHANGED <<u_queue, u_prod, out_data, c_ret, enqueued, dequeued>>

\* if (current_read_loc == write_next.load(acquire)) return false;
\* (the load returns what a load by the consumer returns: write_seen)
U_DeqAcquireWrite ==
    /\ UPc(c_pc) = "d_acquire"
    /\ IF current_read_loc = write_seen
          THEN c_pc' = "ret" /\ c_ret' = "false"
          ELSE c_pc' = "d_read" /\ c_ret' = c_ret
    /\ UNCHANGED <<u_queue, u_prod, current_read_loc, out_data, enqueued, dequeued>>

U_DeqReadSlot ==
    /\ c_pc = "d_read"
    /\ IF queue[current_read_loc] = Indeterminate
          THEN out_data' \in Garbage
          ELSE out_data' = queue[current_read_loc]
    /\ c_pc' = "d_store"
    /\ UNCHANGED <<u_queue, u_prod, current_read_loc, c_ret, enqueued, dequeued>>

U_DeqStoreRead ==
    /\ c_pc = "d_store"
    /\ read_next' = increment(current_read_loc)
    /\ c_pc' = "ret"
    /\ c_ret' = "true"
    /\ dequeued' = Append(dequeued, out_data)
    /\ UNCHANGED <<capacity, queue, write_next, u_prod, current_read_loc, out_data, enqueued>>

U_Next ==
    \/ U_EnqCall
    \/ U_EnqLoadWrite
    \/ U_EnqAcquireRead
    \/ U_EnqWriteSlot
    \/ U_EnqStoreWrite
    \/ U_DeqCall
    \/ U_DeqLoadRead
    \/ U_DeqAcquireWrite
    \/ U_DeqReadSlot
    \/ U_DeqStoreRead

\* C16 (the cached queue refines the queue without caches): with the cache check
\* of a call mapped to the variant's acquire load, every step of the cached queue
\* is a step of the variant that always acquire-loads the other cursor before
\* deciding (its loads returning the values that are visible to the cached queue's
\* threads), or leaves the variant's state unchanged; so in every interleaving the
\* cached queue returns the same booleans and the same dequeued values and keeps
\* the same writeCursor, readCursor and slot contents as the variant.
C16_RefinesUncached == [][U_Next]_u_vars

\* C16 witness: the last dequeue took the fast path on an out-of-date snapshot
\* (four steps) and the last enqueue took the slow path and found room (five
\* steps); the variant takes the acquire load in both.
C16_Witness ==
    /\ capacity = 8
    /\ p_pc = "ret"
    /\ p_ret = "true"
    /\ p_steps = 5
    /\ c_pc = "ret"
    /\ c_ret = "true"
    /\ c_steps = 4
    /\ cached_write_loc # write_next
    /\ Held >= 2

\* The conditional wrap check of the general variant.
AdvanceByWrapCheck(k) == IF k + 1 = capacity THEN 0 ELSE k + 1

\* C17 (index advancement): the capacity is a power of two >= 2, and for every
\* index k in [0, capacity), increment(k) = (k + 1) & (capacity - 1) equals
\* (k + 1) mod capacity, that is k + 1 for k < capacity - 1 and 0 for
\* k = capacity - 1, the result of the conditional wrap check; and the next_loc a
\* try_enqueue computed is advance(current_write_loc).
C17_IndexAdvance ==
    /\ \E e \in 1..capacity : capacity = 2 ^ e
    /\ \A k \in 0..(capacity - 1) :
          /\ increment(k) = (k + 1) % capacity
          /\ increment(k) = AdvanceByWrapCheck(k)
          /\ increment(k) = IF k < capacity - 1 THEN k + 1 ELSE 0
    /\ p_pc \in {"e_check", "e_acquire", "e_write", "e_store"} =>
          next_loc = (current_write_loc + 1) % capacity

\* C17 witness: a capacity beyond those of the other specifications; try_enqueue
\* has just computed next_loc = 0 from the last index.
C17_Witness ==
    /\ capacity > MaxCapacity
    /\ p_pc = "e_check"
    /\ current_write_loc = capacity - 1
    /\ next_loc = 0
    /\ read_next = capacity - 1

\* Free slots and filled slots as a pair of cursors implies them.
FreeSpace(w, r) == (r - w - 1) % capacity
Fill(w, r) == (w - r) % capacity

\* C18 (the snapshots are stale only in the conservative direction): in every
\* reachable state cached_read_loc is a position readCursor held at or before now
\* and not more than a lap behind writeCursor, so the free space it implies never
\* exceeds the real free space; and cached_write_loc is a position writeCursor
\* held at or before now and not behind readCursor, so the fill it implies never
\* exceeds the real fill.
C18_Conservative ==
    /\ FreeSpace(write_next, cached_read_loc) <= FreeSpace(write_next, read_next)
    /\ Fill(cached_write_loc, read_next) <= Fill(write_next, read_next)
    /\ \E j \in 0..Len(dequeued) :
          /\ j % capacity = cached_read_loc
          /\ Len(enqueued) - j <= capacity - 1
    /\ \E j \in Len(dequeued)..Len(enqueued) : j % capacity = cached_write_loc

\* C18 witness: capacity 8, no call in progress, both snapshots out of date and
\* strictly pessimistic, the write cursor having wrapped past the read cursor.
C18_Witness ==
    /\ capacity = 8
    /\ p_pc = "ret"
    /\ c_pc = "ret"
    /\ write_next < read_next
    /\ FreeSpace(write_next, cached_read_loc) < FreeSpace(write_next, read_next)
    /\ Fill(cached_write_loc, read_next) < Fill(write_next, read_next)
    /\ FreeSpace(write_next, cached_read_loc) > 0
    /\ Fill(cached_write_loc, read_next) > 0

\* The parts of C19: the steps of a call up to the one that returns false, and the
\* call that returned false in a run.
C19_FailedStep ==
    /\ EnqReturnsFalse =>
          /\ cached_read_loc' = cached_read_loc
          /\ UNCHANGED queue_vars
    /\ DeqReturnsFalse =>
          /\ cached_write_loc' = cached_write_loc
          /\ UNCHANGED queue_vars
    /\ (EnqStep /\ p_pc \in {"e_load", "e_check"}) => UNCHANGED queue_vars
    /\ (DeqStep /\ c_pc \in {"d_load", "d_check"}) => UNCHANGED queue_vars
    /\ cached_read_loc' # cached_read_loc => p_pc' = "e_write"
    /\ cached_write_loc' # cached_write_loc => c_pc' = "d_read"

C19_FailedRun ==
    \A k \in 1..Len(run) :
        run[k].ret = "false" =>
            /\ run[k].cr = Pre(k).cr
            /\ run[k].cw = Pre(k).cw
            /\ run[k].w = Pre(k).w
            /\ run[k].r = Pre(k).r
            /\ run[k].q = Pre(k).q

\* C19 (a failed call leaves the caller's snapshot as it was): the acquire load
\* that makes try_enqueue return false stores into cached_read_loc the value it
\* already held, and no earlier step of the call changes it; the same holds for
\* try_dequeue and cached_write_loc; a step that does change a snapshot is the
\* acquire load of a call that goes on to the slot access; so in a run of calls
\* that do not overlap a call that returned false left both cursors, both
\* snapshots and every slot as they were.
C19_FailureKeepsCache == [](C19_FailedRun) /\ [][C19_FailedStep]_vars

\* C19 witness: an enqueue refused on a full queue whose producer-side snapshot
\* is not 0, right after a successful enqueue that had refreshed the snapshot; the
\* consumer's last call had been refused as well.
C19_Witness ==
    /\ capacity = 4
    /\ Len(run) >= 2
    /\ run[Len(run)].op = "enq"
    /\ run[Len(run)].ret = "false"
    /\ run[Len(run)].cr # 0
    /\ run[Len(run)].cr = Pre(Len(run)).cr
    /\ \E k \in 1..(Len(run) - 1) : run[k].ret = "true" /\ run[k].cr # Pre(k).cr
    /\ c_ret = "false"

\* The parts of C20: the steps that may assign out_data, the path of a successful
\* call, and what a call did to out_data in a run.
C20_OutStep ==
    /\ out_data' # out_data => c_pc = "d_read" /\ c_pc' = "d_store"
    /\ (DeqStep /\ c_pc \in {"d_load", "d_check", "d_acquire"}) => out_data' = out_data
    /\ DeqReturnsFalse => out_data' = out_data
    /\ (c_pc = "d_read" /\ c_pc' = "d_store") =>
          /\ out_data' = queue[current_read_loc]
          /\ read_next' = read_next
          /\ read_next = current_read_loc
    /\ c_pc' = "d_read" => c_pc \in {"d_check", "d_acquire", "d_read"}
    /\ DeqReturnsTrue =>
          /\ c_pc = "d_store"
          /\ out_data' = out_data
          /\ read_next' = increment(current_read_loc)

C20_OutPath ==
    /\ c_pc = "d_read" => c_steps \in {2, 3}
    /\ c_pc = "d_store" => c_steps \in {3, 4}
    /\ (c_pc = "ret" /\ c_ret = "true") => c_steps \in {4, 5}

C20_OutRun ==
    \A k \in 1..Len(run) :
        /\ (run[k].op = "deq" /\ run[k].ret = "false") => run[k].out = Pre(k).out
        /\ (run[k].op = "deq" /\ run[k].ret = "true") => run[k].out = Pre(k).q[Pre(k).r]
        /\ run[k].op = "enq" => run[k].out = Pre(k).out

\* C20 (out_data is written only on success): the only step that assigns
\* out_data is the slot read of try_dequeue, which comes after the checks and
\* before the readCursor store and is taken once in a call (the call has four or
\* five steps and stands at the slot read once); the step that returns false does
\* not assign it; so in a run of calls that do not overlap a refused try_dequeue
\* left out_data holding what it held and a successful one left the slot's value.
C20_OutOnlyOnSuccess == [](C20_OutPath /\ C20_OutRun) /\ [][C20_OutStep]_vars

\* C20 witness: a successful dequeue followed by a refused one; out_data still
\* holds the value of the first, which is not what slot readCursor holds.
C20_Witness ==
    /\ capacity = 4
    /\ Len(run) >= 2
    /\ run[Len(run) - 1].op = "deq"
    /\ run[Len(run) - 1].ret = "true"
    /\ run[Len(run)].op = "deq"
    /\ run[Len(run)].ret = "false"
    /\ run[Len(run)].out = run[Len(run) - 1].out
    /\ run[Len(run)].out # Indeterminate
    /\ run[Len(run)].q[run[Len(run)].r] # run[Len(run)].out
    /\ run[Len(run)].q[run[Len(run)].r] # Indeterminate

====
